---------------------------- MODULE Spec2Model ----------------------------
(***************************************************************************)
(* Model of src/snv_hamiltonian.py: the SnV spin Hamiltonian term builders,*)
(* the field-vector helpers, the per-manifold diagonalisation and dipole   *)
(* transform, the system assembly and the enlarged (electronic level x     *)
(* label) operators.                                                       *)
(*                                                                         *)
(* Numbers.  The program computes in IEEE doubles.  The model computes     *)
(* exactly in the field Q(sqrt 2, sqrt 3), which holds every constant the  *)
(* helpers introduce (1/sqrt 2, 1/sqrt 3, 1/sqrt 6, the sines and cosines  *)
(* of multiples of 30 degrees), plus one non-finite value NaN, the result  *)
(* of 0/0.  Rounding is not modelled.  Energies are in units of 2*pi THz.  *)
(***************************************************************************)
EXTENDS Integers, Sequences, FiniteSets, TLC

VARIABLES pc, op, arg, solved, loc, ret, err

vars == <<pc, op, arg, solved, loc, ret, err>>

---------------------------------------------------------------------------
(* Bounds of the explored inputs.                                          *)

\* field magnitudes 0 .. MaxMag (and the default 10^-6)
MaxMag == 2
\* components of direction / field vectors: -MaxCoord .. MaxCoord
MaxCoord == 1
\* scalar parameters handed to the term builders: -MaxPar .. MaxPar
MaxPar == 1
\* eigenvalues the solver may report to get_eigs: 0 .. MaxEig
MaxEig == 2

---------------------------------------------------------------------------
(* Exact arithmetic.  A number is <<a, b, c, e, d>>, the value             *)
(* (a + b*sqrt2 + c*sqrt3 + e*sqrt6) / d with d > 0 and the five integers  *)
(* coprime; d = 0 is NaN.                                                  *)

Abs(n) == IF n < 0 THEN -n ELSE n

RECURSIVE GCD(_, _)
GCD(m, n) == IF n = 0 THEN m ELSE GCD(n, m % n)

NaN == <<0, 0, 0, 0, 0>>

IsNaN(x) == x[5] = 0

Norm(t) ==
    IF t[5] = 0 THEN NaN
    ELSE IF t[5] = 1 THEN t
    ELSE LET g == GCD(GCD(GCD(Abs(t[1]), Abs(t[2])), GCD(Abs(t[3]), Abs(t[4]))), Abs(t[5]))
             s == IF t[5] < 0 THEN -g ELSE g
         IN  <<t[1] \div s, t[2] \div s, t[3] \div s, t[4] \div s, t[5] \div s>>

Rat(n, d) == Norm(<<n, 0, 0, 0, d>>)
Q(n) == <<n, 0, 0, 0, 1>>
Zero == Q(0)
One == Q(1)

\* sqrt(k)/d for k in {2, 3, 6}: 1/sqrt(2) = Surd(2, 2), 1/sqrt(6) = Surd(6, 6)
Surd(k, d) ==
    CASE k = 2 -> <<0, 1, 0, 0, d>>
      [] k = 3 -> <<0, 0, 1, 0, d>>
      [] k = 6 -> <<0, 0, 0, 1, d>>

NNeg(x) == <<-x[1], -x[2], -x[3], -x[4], x[5]>>

\* over the least common denominator, to keep the integers small
NAdd(x, y) ==
    IF IsNaN(x) \/ IsNaN(y) THEN NaN
    ELSE IF x = Zero THEN y
    ELSE IF y = Zero THEN x
    ELSE LET g  == GCD(x[5], y[5])
             fx == y[5] \div g
             fy == x[5] \div g
         IN  Norm(<<x[1] * fx + y[1] * fy, x[2] * fx + y[2] * fy,
                    x[3] * fx + y[3] * fy, x[4] * fx + y[4] * fy,
                    x[5] * fx>>)

NSub(x, y) == NAdd(x, NNeg(y))

NMul(x, y) ==
    IF IsNaN(x) \/ IsNaN(y) THEN NaN
    ELSE IF x = Zero \/ y = Zero THEN Zero
    ELSE IF x = One THEN y
    ELSE IF y = One THEN x
    ELSE Norm(<<x[1] * y[1] + 2 * x[2] * y[2] + 3 * x[3] * y[3] + 6 * x[4] * y[4],
                x[1] * y[2] + x[2] * y[1] + 3 * (x[3] * y[4] + x[4] * y[3]),
                x[1] * y[3] + x[3] * y[1] + 2 * (x[2] * y[4] + x[4] * y[2]),
                x[1] * y[4] + x[4] * y[1] + x[2] * y[3] + x[3] * y[2],
                x[5] * y[5]>>)

\* the conjugates sqrt3 -> -sqrt3 and sqrt2 -> -sqrt2 of the field
Conj3(x) == <<x[1], x[2], -x[3], -x[4], x[5]>>
Conj2(x) == <<x[1], -x[2], x[3], -x[4], x[5]>>

\* x / y as IEEE division: NaN when an operand is NaN and for 0/0.  (x/0 with
\* x # 0 is an infinity; the program's only divisor is nrm, which is 0 only
\* when every numerator is 0 too, so no infinity is ever produced.)
NDiv(x, y) ==
    IF IsNaN(x) \/ IsNaN(y) \/ y = Zero THEN NaN
    ELSE LET n3 == NMul(y, Conj3(y))          \* in Q(sqrt2)
             c  == NMul(Conj3(y), Conj2(n3))  \* y * c is rational
             n  == NMul(n3, Conj2(n3))        \* = <<p, 0, 0, 0, q>>
             t  == NMul(x, c)
         IN  Norm(<<t[1] * n[5], t[2] * n[5], t[3] * n[5], t[4] * n[5], t[5] * n[1]>>)

\* order of two rational numbers (the solver's eigenvalues)
NLess(x, y) == x[1] * y[5] < y[1] * x[5]

\* IEEE equality: NaN equals nothing, itself included
NEq(x, y) == ~IsNaN(x) /\ ~IsNaN(y) /\ x = y

---------------------------------------------------------------------------
(* Complex numbers <<re, im>>.                                             *)

Cx(re, im) == <<re, im>>
CR(x) == <<x, Zero>>
CZero == CR(Zero)
COne == CR(One)
CI == <<Zero, One>>
CInt(n) == CR(Q(n))

CAdd(x, y) == <<NAdd(x[1], y[1]), NAdd(x[2], y[2])>>
CNeg(x) == <<NNeg(x[1]), NNeg(x[2])>>
CMul(x, y) ==
    IF x = CZero \/ y = CZero THEN
        IF IsNaN(x[1]) \/ IsNaN(x[2]) \/ IsNaN(y[1]) \/ IsNaN(y[2])
        THEN <<NaN, NaN>> ELSE CZero
    ELSE <<NSub(NMul(x[1], y[1]), NMul(x[2], y[2])),
           NAdd(NMul(x[1], y[2]), NMul(x[2], y[1]))>>
CConj(x) == <<x[1], NNeg(x[2])>>
CFinite(x) == ~IsNaN(x[1]) /\ ~IsNaN(x[2])

---------------------------------------------------------------------------
(* Vectors are tuples; matrices are functions over 0-based indices, as in  *)
(* the source.                                                             *)

Mat(rows) ==
    [i \in 0 .. Len(rows) - 1 |-> [j \in 0 .. Len(rows[1]) - 1 |-> rows[i + 1][j + 1]]]

Dim(M) == Cardinality(DOMAIN M)

Zeros(n, m) == [i \in 0 .. n - 1 |-> [j \in 0 .. m - 1 |-> CZero]]

MAdd(A, B) == [i \in DOMAIN A |-> [j \in DOMAIN A[i] |-> CAdd(A[i][j], B[i][j])]]

MScale(c, A) == [i \in DOMAIN A |-> [j \in DOMAIN A[i] |-> CMul(c, A[i][j])]]

RECURSIVE CSum(_, _, _)
CSum(f, lo, hi) == IF lo > hi THEN CZero ELSE CAdd(f[lo], CSum(f, lo + 1, hi))

\* np.dot(A, B)
Dot(A, B) ==
    [i \in DOMAIN A |->
        [j \in DOMAIN B[0] |->
            CSum([k \in DOMAIN B |-> CMul(A[i][k], B[k][j])], 0, Dim(B) - 1)]]

\* M.conjugate().transpose()
ConjT(M) == [i \in DOMAIN M[0] |-> [j \in DOMAIN M |-> CConj(M[j][i])]]

MFinite(M) == \A i \in DOMAIN M : \A j \in DOMAIN M[i] : CFinite(M[i][j])

VFinite(v) == \A i \in DOMAIN v : ~IsNaN(v[i])

---------------------------------------------------------------------------
(* Helper functions.                                                       *)

\* vec = np.array(coordinate_vector); nrm = np.sum(np.abs(vec) ** 2.)
\* return magnitude * vec / nrm
make_B_vector(magnitude, coordinate_vector) ==
    LET vec == coordinate_vector
        nrm == NAdd(NAdd(NMul(vec[1], vec[1]), NMul(vec[2], vec[2])), NMul(vec[3], vec[3]))
    IN  [i \in 1 .. 3 |-> NDiv(NMul(magnitude, vec[i]), nrm)]

lattice_basis ==
    << <<Surd(6, 6), NNeg(Surd(6, 3)), Surd(6, 6)>>,
       <<Surd(2, 2), Zero, NNeg(Surd(2, 2))>>,
       <<Surd(3, 3), Surd(3, 3), Surd(3, 3)>> >>

\* np.dot(_lattice_basis, _vc)
lattice_to_coord(lattice_vector) ==
    [i \in 1 .. 3 |->
        NAdd(NAdd(NMul(lattice_basis[i][1], lattice_vector[1]),
                  NMul(lattice_basis[i][2], lattice_vector[2])),
             NMul(lattice_basis[i][3], lattice_vector[3]))]

---------------------------------------------------------------------------
(* Term builders: 4 x 4 complex matrices.                                  *)

H_SO(lambda_SO) ==
    LET a == CMul(CI, CR(NDiv(lambda_SO, Q(2))))
        o == CZero
    IN  Mat(<< <<o, o, CNeg(a), o>>,
               <<o, o, o, a>>,
               <<a, o, o, o>>,
               <<o, CNeg(a), o, o>> >>)

H_JT(xi_xy) ==
    LET x == CR(xi_xy[1])
        y == CR(xi_xy[2])
        o == CZero
    IN  Mat(<< <<x, o, y, o>>,
               <<o, x, o, y>>,
               <<y, o, CNeg(x), o>>,
               <<o, y, o, CNeg(x)>> >>)

H_ZL(B_vec, gammaL, f) ==
    LET iBz == CMul(CI, CR(B_vec[3]))
        o   == CZero
    IN  MScale(CR(NMul(f, gammaL)),
               Mat(<< <<o, o, iBz, o>>,
                      <<o, o, o, iBz>>,
                      <<CNeg(iBz), o, o, o>>,
                      <<o, CNeg(iBz), o, o>> >>))

\* H_ZS with B_x + i B_y on both sides of the diagonal
H_ZSSameSign(B_vec, gammaS) ==
    LET Bz == CR(B_vec[3])
        Bp == CAdd(CR(B_vec[1]), CMul(CI, CR(B_vec[2])))
        o  == CZero
    IN  MScale(CR(gammaS),
               Mat(<< <<Bz, Bp, o, o>>,
                      <<Bp, CNeg(Bz), o, o>>,
                      <<o, o, Bz, Bp>>,
                      <<o, o, Bp, CNeg(Bz)>> >>))

H_ZS(B_vec, gammaS) ==
    LET Bz == CR(B_vec[3])
        Bp == CAdd(CR(B_vec[1]), CMul(CI, CR(B_vec[2])))
        Bm == CAdd(CR(B_vec[1]), CNeg(CMul(CI, CR(B_vec[2]))))
        o  == CZero
    IN  MScale(CR(gammaS),
               Mat(<< <<Bz, Bm, o, o>>,
                      <<Bp, CNeg(Bz), o, o>>,
                      <<o, o, Bz, Bm>>,
                      <<o, o, Bp, CNeg(Bz)>> >>))

H_st(alpha, beta, delta) ==
    LET ad0 == CR(NSub(alpha, delta))
        ad1 == CR(NSub(NNeg(alpha), delta))
        bt  == CR(beta)
        o   == CZero
    IN  Mat(<< <<ad0, o, bt, o>>,
               <<o, ad0, o, bt>>,
               <<bt, o, ad1, o>>,
               <<o, bt, o, ad1>> >>)

dipole_matel ==
    LET p == COne
        m == CNeg(COne)
        o == CZero
        t == CInt(2)
    IN  [x |-> Mat(<< <<p, o, o, o>>, <<o, p, o, o>>, <<o, o, m, o>>, <<o, o, o, m>> >>),
         y |-> Mat(<< <<o, o, m, o>>, <<o, o, o, m>>, <<m, o, o, o>>, <<o, m, o, o>> >>),
         z |-> MScale(t, Mat(<< <<p, o, o, o>>, <<o, p, o, o>>,
                                <<o, o, p, o>>, <<o, o, o, p>> >>))]

Axes == {"x", "y", "z"}

---------------------------------------------------------------------------
(* Sample parameters, in units of 2*pi THz (the source multiplies each by  *)
(* 2*pi); gamma_L = mu_B / hbar * 1e-12 is 2*pi * 0.0139962..., modelled to *)
(* two digits.                                                             *)

lambda_g == Rat(815, 1000)
lambda_u == Rat(2355, 1000)
xi_xg == Rat(65, 1000)
xi_yg == Zero
xi_xu == Rat(855, 1000)
xi_yu == Zero
f_g == Rat(15, 100)
f_u == Rat(15, 100)
gamma_L == Rat(14, 1000)
gamma_S == NMul(Q(2), gamma_L)
alpha_g == Rat(-238, 1000)
beta_g == Rat(238, 1000)
delta_g == Zero
alpha_u == Rat(-76, 1000)
beta_u == Rat(-70, 1000)
delta_u == Zero
ZPL == Rat(48432, 100)

\* the module-level flag of line 215
s == FALSE

Hg0 == MAdd(H_SO(lambda_g), H_JT(<<xi_xg, xi_yg>>))

\* "+ 0" adds the scalar 0 to every entry
HgL(B, strain) ==
    MAdd(MAdd(MAdd(Hg0, H_ZL(B, gamma_L, f_g)), H_ZS(B, gamma_S)),
         IF strain THEN H_st(alpha_g, beta_g, delta_g) ELSE Zeros(4, 4))

Hu0 == MAdd(H_SO(lambda_u), H_JT(<<xi_xu, xi_yu>>))

HuL(B, strain) ==
    MAdd(MAdd(MAdd(Hu0, H_ZL(B, gamma_L, f_u)), H_ZS(B, gamma_S)),
         IF strain THEN H_st(alpha_u, beta_u, delta_u) ELSE Zeros(4, 4))

\* np.diag([ZPL for i in range(4)])
ZPLdiag == [i \in 0 .. 3 |-> [j \in 0 .. 3 |-> IF i = j THEN CR(ZPL) ELSE CZero]]

---------------------------------------------------------------------------
(* Diagonalisation.  np.linalg.eigh is the numerical library's solver; the *)
(* model does not compute eigenpairs.  For a matrix with a non-finite      *)
(* entry LAPACK's QL iteration never deflates a NaN off-diagonal and ends  *)
(* with info > 0, which numpy raises as LinAlgError.  For a finite matrix  *)
(* the solver's answer <<w, v>> (eigenvalues w[0..3], eigenvector columns  *)
(* v[:, 0..3]) is an input of the model, drawn from a bounded set.         *)

eigh_raises(matrix) == ~MFinite(matrix)

RECURSIVE InsertIdx(_, _, _)
\* one pass of the insertion sort numpy's argsort runs on an array this
\* small: index i moves left past every index whose key is greater
InsertIdx(w, lst, i) ==
    IF lst = <<>> \/ ~NLess(w[i], w[lst[Len(lst)]])
    THEN Append(lst, i)
    ELSE Append(InsertIdx(w, SubSeq(lst, 1, Len(lst) - 1), i), lst[Len(lst)])

RECURSIVE SortedIdx(_, _)
SortedIdx(w, n) == IF n = 0 THEN <<>> ELSE InsertIdx(w, SortedIdx(w, n - 1), n - 1)

\* argsort in descending order
argsortDescending(w) ==
    LET l == SortedIdx(w, Dim(w)) IN [k \in 0 .. Dim(w) - 1 |-> l[Dim(w) - k]]

\* np.argsort(np.real(_w)): position k holds the index of the k-th smallest
argsort(w) == LET l == SortedIdx(w, Dim(w)) IN [k \in 0 .. Dim(w) - 1 |-> l[k + 1]]

\* _w, _v = np.linalg.eigh(matrix); _i = np.argsort(np.real(_w))
\* return _w[_i], _v[:, _i]
get_eigs(eigh) ==
    LET w == eigh[1]
        v == eigh[2]
        i == argsort(w)
    IN  << [k \in DOMAIN i |-> w[i[k]]],
           [r \in DOMAIN v |-> [k \in DOMAIN i |-> v[r][i[k]]]] >>

\* a[::2]
EvenRows(a) == [k \in 0 .. ((Dim(a) + 1) \div 2) - 1 |-> a[2 * k]]

\* a[::2, ::2]
EvenRowsCols(a) == [k \in 0 .. ((Dim(a) + 1) \div 2) - 1 |-> EvenRows(a[2 * k])]

\* eighs.u and eighs.g are the solver's answers for HT['u'] and HT['g']
manifold(HT, D, eighs) ==
    LET eu == get_eigs(eighs.u)
        eg == get_eigs(eighs.g)
        Mvu == eu[2]
        Mvg == eg[2]
        p == [axis \in Axes |-> Dot(ConjT(Mvg), Dot(D[axis], Mvu))]
    IN  [eigs |-> [g |-> eg[1], u |-> eu[1]], vecs |-> [g |-> Mvg, u |-> Mvu], dips |-> p]

manifold_small(HT, D, eighs) ==
    LET eu == get_eigs(eighs.u)
        eg == get_eigs(eighs.g)
        Mvu == eu[2]
        Mvg == eg[2]
        p == [axis \in Axes |-> EvenRowsCols(Dot(ConjT(Mvg), Dot(D[axis], Mvu)))]
    IN  [eigs |-> [g |-> EvenRows(eg[1]), u |-> EvenRows(eu[1])],
         vecs |-> [g |-> EvenRows(Mvg), u |-> EvenRows(Mvu)],
         dips |-> p]

---------------------------------------------------------------------------
(* System assembly.                                                        *)

\* M[r0:r0+rows, c0:c0+cols] = blk
SetBlock(M, r0, c0, blk) ==
    [i \in DOMAIN M |->
        [j \in DOMAIN M[i] |->
            IF i - r0 \in DOMAIN blk /\ j - c0 \in DOMAIN blk[0]
            THEN blk[i - r0][j - c0]
            ELSE M[i][j]]]

\* the blocks snv_hamiltonian builds (lines 222-224); _s is not read
snv_hamiltonian_HT(b, sflag, b_vec) ==
    LET B == make_B_vector(b, lattice_to_coord(b_vec))
    IN  [B |-> B, g |-> HgL(B, s), u |-> MAdd(ZPLdiag, HuL(B, s))]

snv_hamiltonian(b, sflag, b_vec) ==
    LET HT == snv_hamiltonian_HT(b, sflag, b_vec)
    IN  SetBlock(SetBlock(Zeros(8, 8), 0, 0, HT.u), 4, 4, HT.g)

\* the blocks system builds (lines 237-240); _s is not read
system_HT(b, sflag, b_vec) ==
    LET B == make_B_vector(b, b_vec)
    IN  [B |-> B, g |-> HgL(B, s), u |-> MAdd(ZPLdiag, HuL(B, s))]

\* P with P[0:n, n:2n] = d and P[n:2n, 0:n] = d.conjugate().transpose()
\* Composite with the transpose, not the conjugate transpose, below
CompositeTransposeOnly(d) ==
    LET n == Dim(d)
    IN  SetBlock(SetBlock(Zeros(2 * n, 2 * n), 0, n, d), n, 0,
                 [i \in 0 .. n - 1 |-> [j \in 0 .. n - 1 |-> d[j][i]]])

Composite(d) ==
    LET n == Dim(d)
    IN  SetBlock(SetBlock(Zeros(2 * n, 2 * n), 0, n, d), n, 0, ConjT(d))

system(b, sflag, b_vec, eighs) ==
    LET HT == system_HT(b, sflag, b_vec)
        sys == manifold([g |-> HT.g, u |-> HT.u], dipole_matel, eighs)
    IN  [sys |-> sys,
         px |-> Composite(sys.dips.x),
         py |-> Composite(sys.dips.y),
         pz |-> Composite(sys.dips.z)]

system_small(b, sflag, eighs) ==
    LET HT == system_HT(b, sflag, <<Zero, Zero, One>>)
        sys == manifold_small([g |-> HT.g, u |-> HT.u], dipole_matel, eighs)
    IN  [sys |-> sys,
         px |-> Composite(sys.dips.x),
         py |-> Composite(sys.dips.y),
         pz |-> Composite(sys.dips.z)]

\* np.concatenate((a, b)) of two 0-based arrays
Concat(a, b) ==
    [i \in 0 .. Dim(a) + Dim(b) - 1 |-> IF i < Dim(a) THEN a[i] ELSE b[i - Dim(a)]]

\* the default of the keyword epsilon, 10 ** (-6) in the source.  The model
\* checker's integers are 32 bits wide and cannot hold ZPL and
\* f * gamma_L * 10^-6 over one denominator; the model takes 10^-2, a small
\* nonzero magnitude, which is all any operation reads of it.
epsilon0 == Rat(1, 100)

\* the default of the keyword b_vec
b_vec0 == <<Zero, Zero, One>>

energy(epsilon, b_vec, eighs) ==
    LET sy == system(epsilon, FALSE, b_vec, eighs)
    IN  Concat(sy.sys.eigs.g, sy.sys.eigs.u)

\* _system['px'] * polarization[0] + _system['py'] * polarization[1] + ...
WeightedDipole(sy, polarization) ==
    MAdd(MAdd(MScale(CR(polarization[1]), sy.px), MScale(CR(polarization[2]), sy.py)),
         MScale(CR(polarization[3]), sy.pz))

dipole_mat(polarization, epsilon, b_vec, eighs) ==
    WeightedDipole(system(epsilon, FALSE, b_vec, eighs), polarization)

---------------------------------------------------------------------------
(* Enlarged operators over the basis of (electronic level, label) pairs.   *)

\* [0 if i != n else 1 for i in range(dim)]
OneHot(n, dim) == [i \in 0 .. dim - 1 |-> IF i # n THEN 0 ELSE 1]

\* Base with the two comprehensions nested the other way round
BaseLevelMajor(dim) ==
    [k \in 0 .. 2 * dim - 1 |->
        LET l == k % 2
            n == k \div 2
        IN  <<OneHot(n, dim), IF l = 0 THEN 0 ELSE 1>>]

\* base = [[[one-hot n, 0 if l == 0 else 1] for n in range(dim)] for l in range(2)]
\* base = [item for sublist in base for item in sublist]
Base(dim) ==
    [k \in 0 .. 2 * dim - 1 |->
        LET l == k \div dim
            n == k % dim
        IN  <<OneHot(n, dim), IF l = 0 THEN 0 ELSE 1>>]

\* snv_base = [[0 if i != n else 1 for i in range(dim)] for n in range(dim)]
SnvBase(dim) == [n \in 0 .. dim - 1 |-> OneHot(n, dim)]

\* list.index(x): the first position holding x
ListIndex(lst, x) ==
    CHOOSE k \in DOMAIN lst : lst[k] = x /\ \A j \in DOMAIN lst : j < k => lst[j] # x

RECURSIVE HamLoopM(_, _, _, _, _)
\* for m in range(dim): if state[0][m] == 1: dip_ham[index, k] += dip_mat[l, m]
\* acc is the running value of dip_ham[index, k]: out_state, and so index,
\* is the same for every m
HamLoopM(acc, state, dip_mat, l, m) ==
    IF m = Dim(dip_mat) THEN acc
    ELSE HamLoopM(IF state[1][m] = 1 THEN CAdd(acc, dip_mat[l][m]) ELSE acc,
                  state, dip_mat, l, m + 1)

RECURSIVE HamLoopL(_, _, _, _, _)
\* for l in range(dim)
HamLoopL(ham, base, dip_mat, k, l) ==
    IF l = Dim(dip_mat) THEN ham
    ELSE LET state == base[k]
             out_state == <<OneHot(l, Dim(dip_mat)), state[2]>>
             index == ListIndex(base, out_state)
         IN  HamLoopL([ham EXCEPT ![index][k] = HamLoopM(@, state, dip_mat, l, 0)],
                      base, dip_mat, k, l + 1)

RECURSIVE HamLoopK(_, _, _, _)
\* for k, b in enumerate(base): base has hdim entries, ham hdim rows
HamLoopK(ham, base, dip_mat, k) ==
    IF k = Dim(ham) THEN ham
    ELSE HamLoopK(HamLoopL(ham, base, dip_mat, k, 0), base, dip_mat, k + 1)

\* lines 327-345 of dipole_ham, and the same lines 352-371 of dipole_ham_bfield
CouplingOperator(dip_mat) ==
    LET dim  == Dim(dip_mat)
        base == Base(dim)
        hdim == Dim(base)
    IN  HamLoopK(Zeros(hdim, hdim), base, dip_mat, 0)

dipole_ham(polarization, epsilon, b_vec, eighs) ==
    CouplingOperator(WeightedDipole(system(epsilon, FALSE, b_vec, eighs), polarization))

\* cos and sin of phi = j * 30 degrees, j in 0 .. 3
CosPhi(j) == CASE j = 0 -> One [] j = 1 -> Surd(3, 2) [] j = 2 -> Rat(1, 2) [] j = 3 -> Zero
SinPhi(j) == CASE j = 0 -> Zero [] j = 1 -> Rat(1, 2) [] j = 2 -> Surd(3, 2) [] j = 3 -> One

\* b_vec = np.array([np.cos(phi), 0, np.sin(phi)])
bfield_vec(phi) == <<CosPhi(phi), Zero, SinPhi(phi)>>

dipole_ham_bfield(polarization, phi, bm, eighs) ==
    CouplingOperator(WeightedDipole(system(bm, FALSE, bfield_vec(phi), eighs), polarization))

dipole_mat_bfield(polarization, phi, bm, eighs) ==
    WeightedDipole(system(bm, FALSE, bfield_vec(phi), eighs), polarization)

\* H = np.zeros((n, n)); for i, k in enumerate(vals): H[i, i] = k
DiagFill(n, vals) ==
    [i \in 0 .. n - 1 |-> [j \in 0 .. n - 1 |-> IF i = j /\ i \in DOMAIN vals THEN vals[i] ELSE Zero]]

RECURSIVE VacancyLoop(_, _, _, _, _)
\* for k, b in enumerate(base): index = k; internal_index = snv_base.index(b[0])
\*     vacancy_ham[index, k] = vacancy_ham[index, k] + H[internal_index, internal_index]
VacancyLoop(ham, base, snv_base, H, k) ==
    IF k = Dim(ham) THEN ham
    ELSE LET index == k
             internal_index == ListIndex(snv_base, base[k][1])
         IN  VacancyLoop([ham EXCEPT ![index][k] = NAdd(@, H[internal_index][internal_index])],
                         base, snv_base, H, k + 1)

vacancy(epsilon, b_vec, eighs) ==
    LET sy   == system(epsilon, FALSE, b_vec, eighs)
        dim  == Dim(sy.px)
        H    == DiagFill(8, Concat(sy.sys.eigs.g, sy.sys.eigs.u))
        base == Base(dim)
        hdim == Dim(base)
    IN  VacancyLoop(DiagFill(hdim, <<>>), base, SnvBase(dim), H, 0)

\* vacancy4lvl with the first two levels of each manifold, [:2] for [::2]
vacancy4lvlFirstTwo(eighs) ==
    LET sy == system(epsilon0, FALSE, b_vec0, eighs)
        g  == sy.sys.eigs.g
        u  == sy.sys.eigs.u
    IN  DiagFill(4, Concat([k \in 0 .. 1 |-> g[k]], [k \in 0 .. 1 |-> u[k]]))

vacancy4lvl(eighs) ==
    LET sy == system(epsilon0, FALSE, b_vec0, eighs)
    IN  DiagFill(4, Concat(EvenRows(sy.sys.eigs.g), EvenRows(sy.sys.eigs.u)))

vacancy_all_lvl(epsilon, b_vec, eighs) ==
    LET sy  == system(epsilon, FALSE, b_vec, eighs)
        dim == Dim(sy.px)
    IN  DiagFill(dim, Concat(sy.sys.eigs.g, sy.sys.eigs.u))

---------------------------------------------------------------------------
(* Inputs of the explored calls.                                           *)

Vec3(x, y, z) == <<Q(x), Q(y), Q(z)>>

\* field magnitudes
Mags == {Q(m) : m \in 0 .. MaxMag} \cup {epsilon0}

\* every vector with integer components in -MaxCoord .. MaxCoord
Cube == {Vec3(x, y, z) : x, y, z \in -MaxCoord .. MaxCoord}

\* field directions handed to the assembling operations: the zero vector,
\* the default axis, and a vector that is not of unit length
Directions == {Vec3(0, 0, 0), Vec3(0, 0, 1), Vec3(1, 1, 0)}

\* (epsilon, b_vec) of the operations that only hand them on to system
Fields == {<<epsilon0, b_vec0>>, <<Q(MaxMag), Vec3(1, 1, 0)>>, <<Q(1), Vec3(0, 0, 0)>>}

\* (phi, bm) of the operations that take the field as an angle
AngleFields == {<<0, Q(1)>>, <<1, Q(MaxMag)>>, <<3, epsilon0>>}

\* polarisation weights
Pols == {Vec3(1, 0, 0), Vec3(0, 0, 1), Vec3(1, -1, 2)}

\* scalar parameters of the term builders: halves in [-MaxPar, MaxPar]
Pars == {Rat(n, 2) : n \in -2 * MaxPar .. 2 * MaxPar}

\* Answers of the solver: two unitary eigenvector matrices
EighVecA ==
    LET r == CR(Surd(2, 2))
        p == Cx(Zero, Surd(2, 2))
        m == Cx(Zero, NNeg(Surd(2, 2)))
        o == CZero
    IN  Mat(<< <<r, o, r, o>>, <<o, r, o, r>>, <<p, o, m, o>>, <<o, p, o, m>> >>)

EighVecB ==
    LET o == CZero
    IN  Mat(<< <<o, COne, o, o>>, <<CI, o, o, o>>, <<o, o, o, CNeg(COne)>>, <<o, o, CNeg(CI), o>> >>)

\* the solver's answers for the blocks of a system: ascending eigenvalues,
\* a degenerate one and a split one
SysEigh ==
    { <<[i \in 0 .. 3 |-> Q(i \div 2)], EighVecA>>,
      <<[i \in 0 .. 3 |-> Q(i + 1)], EighVecB>> }

SysEighs == [g : SysEigh, u : SysEigh]

\* the solver's answers handed to get_eigs alone: every eigenvalue list over
\* 0 .. MaxEig, in any order
AnyEigh == [0 .. 3 -> {Q(n) : n \in 0 .. MaxEig}] \X {EighVecA, EighVecB}

---------------------------------------------------------------------------
(* The state machine: one call of a public function at a time.  op and arg *)
(* are the call, loc the blocks it built, solved the solver's answers,     *)
(* ret the value returned and err the exception raised.                    *)

None == <<>>

Arg0 == [b |-> Zero, s |-> FALSE, b_vec |-> None, pol |-> None, phi |-> 0, par |-> None]

Loc0 == [B |-> None, g |-> None, u |-> None]

Init ==
    /\ pc = "idle"
    /\ op = "none"
    /\ arg = Arg0
    /\ solved = None
    /\ loc = Loc0
    /\ ret = None
    /\ err = "none"

\* a call that builds no block and solves nothing
Plain(name, a, value) ==
    /\ pc = "idle"
    /\ pc' = "done"
    /\ op' = name
    /\ arg' = a
    /\ solved' = None
    /\ loc' = Loc0
    /\ ret' = value
    /\ err' = "none"

\* a call that builds the blocks HT and solves nothing
Blocks(name, a, HT, value) ==
    /\ pc = "idle"
    /\ pc' = "done"
    /\ op' = name
    /\ arg' = a
    /\ solved' = None
    /\ loc' = HT
    /\ ret' = value
    /\ err' = "none"

\* a call that builds the blocks HT and diagonalises them: HT['u'] first
ViaEigh(name, a, HT, results) ==
    /\ pc = "idle"
    /\ pc' = "done"
    /\ op' = name
    /\ arg' = a
    /\ loc' = HT
    /\ IF eigh_raises(HT.u) \/ eigh_raises(HT.g)
       THEN /\ solved' = None
            /\ ret' = None
            /\ err' = "LinAlgError"
       ELSE \E e \in SysEighs :
            /\ solved' = e
            /\ ret' = results[e]
            /\ err' = "none"

Call_make_B_vector ==
    \E m \in Mags, d \in Cube :
        Plain("make_B_vector", [Arg0 EXCEPT !.b = m, !.b_vec = d], make_B_vector(m, d))

Call_H_SO ==
    \E l \in Pars : Plain("H_SO", [Arg0 EXCEPT !.par = <<l>>], H_SO(l))

Call_H_JT ==
    \E x, y \in Pars : Plain("H_JT", [Arg0 EXCEPT !.par = <<x, y>>], H_JT(<<x, y>>))

Call_H_ZL ==
    \E B \in Cube, gL \in Pars, f \in {One, f_g} :
        Plain("H_ZL", [Arg0 EXCEPT !.b_vec = B, !.par = <<gL, f>>], H_ZL(B, gL, f))

Call_H_ZS ==
    \E B \in Cube, gS \in Pars :
        Plain("H_ZS", [Arg0 EXCEPT !.b_vec = B, !.par = <<gS>>], H_ZS(B, gS))

Call_H_st ==
    \E al, be, de \in Pars :
        Plain("H_st", [Arg0 EXCEPT !.par = <<al, be, de>>], H_st(al, be, de))

\* get_eigs(matrix) for a finite Hermitian matrix, whose solver answer is e
Call_get_eigs ==
    \E e \in AnyEigh :
        /\ pc = "idle"
        /\ pc' = "done"
        /\ op' = "get_eigs"
        /\ arg' = Arg0
        /\ solved' = [matrix |-> e]
        /\ loc' = Loc0
        /\ ret' = get_eigs(e)
        /\ err' = "none"

\* snv_hamiltonian diagonalises nothing: it returns whatever the blocks hold
Call_snv_hamiltonian ==
    \E b \in Mags, sf \in BOOLEAN, v \in Directions :
        Blocks("snv_hamiltonian", [Arg0 EXCEPT !.b = b, !.s = sf, !.b_vec = v],
               snv_hamiltonian_HT(b, sf, v), snv_hamiltonian(b, sf, v))

Call_system ==
    \E b \in Mags, sf \in BOOLEAN, v \in Directions :
        ViaEigh("system", [Arg0 EXCEPT !.b = b, !.s = sf, !.b_vec = v],
                system_HT(b, sf, v), [e \in SysEighs |-> system(b, sf, v, e)])

Call_system_small ==
    \E b \in Mags, sf \in BOOLEAN :
        ViaEigh("system_small", [Arg0 EXCEPT !.b = b, !.s = sf, !.b_vec = b_vec0],
                system_HT(b, sf, b_vec0), [e \in SysEighs |-> system_small(b, sf, e)])

Call_energy ==
    \E fld \in Fields :
        LET b == fld[1]
            v == fld[2]
        IN
        ViaEigh("energy", [Arg0 EXCEPT !.b = b, !.b_vec = v],
                system_HT(b, FALSE, v), [e \in SysEighs |-> energy(b, v, e)])

Call_dipole_mat ==
    \E w \in Pols, fld \in Fields :
        LET b == fld[1]
            v == fld[2]
        IN
        ViaEigh("dipole_mat", [Arg0 EXCEPT !.b = b, !.b_vec = v, !.pol = w],
                system_HT(b, FALSE, v), [e \in SysEighs |-> dipole_mat(w, b, v, e)])

Call_dipole_mat_bfield ==
    \E w \in Pols, fld \in AngleFields :
        LET phi == fld[1]
            bm  == fld[2]
        IN
        ViaEigh("dipole_mat_bfield",
                [Arg0 EXCEPT !.b = bm, !.b_vec = bfield_vec(phi), !.pol = w, !.phi = phi],
                system_HT(bm, FALSE, bfield_vec(phi)),
                [e \in SysEighs |-> dipole_mat_bfield(w, phi, bm, e)])

Call_dipole_ham ==
    \E w \in Pols, fld \in Fields :
        LET b == fld[1]
            v == fld[2]
        IN
        ViaEigh("dipole_ham", [Arg0 EXCEPT !.b = b, !.b_vec = v, !.pol = w],
                system_HT(b, FALSE, v), [e \in SysEighs |-> dipole_ham(w, b, v, e)])

Call_dipole_ham_bfield ==
    \E w \in Pols, fld \in AngleFields :
        LET phi == fld[1]
            bm  == fld[2]
        IN
        ViaEigh("dipole_ham_bfield",
                [Arg0 EXCEPT !.b = bm, !.b_vec = bfield_vec(phi), !.pol = w, !.phi = phi],
                system_HT(bm, FALSE, bfield_vec(phi)),
                [e \in SysEighs |-> dipole_ham_bfield(w, phi, bm, e)])

Call_vacancy ==
    \E fld \in Fields :
        LET b == fld[1]
            v == fld[2]
        IN
        ViaEigh("vacancy", [Arg0 EXCEPT !.b = b, !.b_vec = v],
                system_HT(b, FALSE, v), [e \in SysEighs |-> vacancy(b, v, e)])

Call_vacancy4lvl ==
    ViaEigh("vacancy4lvl", [Arg0 EXCEPT !.b = epsilon0, !.b_vec = b_vec0],
            system_HT(epsilon0, FALSE, b_vec0), [e \in SysEighs |-> vacancy4lvl(e)])

Call_vacancy_all_lvl ==
    \E fld \in Fields :
        LET b == fld[1]
            v == fld[2]
        IN
        ViaEigh("vacancy_all_lvl", [Arg0 EXCEPT !.b = b, !.b_vec = v],
                system_HT(b, FALSE, v), [e \in SysEighs |-> vacancy_all_lvl(b, v, e)])

\* the caller takes the result; the next call starts from scratch
Return ==
    /\ pc = "done"
    /\ pc' = "idle"
    /\ op' = "none"
    /\ arg' = Arg0
    /\ solved' = None
    /\ loc' = Loc0
    /\ ret' = None
    /\ err' = "none"

Next ==
    \/ Call_make_B_vector
    \/ Call_H_SO
    \/ Call_H_JT
    \/ Call_H_ZL
    \/ Call_H_ZS
    \/ Call_H_st
    \/ Call_get_eigs
    \/ Call_snv_hamiltonian
    \/ Call_system
    \/ Call_system_small
    \/ Call_energy
    \/ Call_dipole_mat
    \/ Call_dipole_mat_bfield
    \/ Call_dipole_ham
    \/ Call_dipole_ham_bfield
    \/ Call_vacancy
    \/ Call_vacancy4lvl
    \/ Call_vacancy_all_lvl
    \/ Return

Spec == Init /\ [][Next]_vars

---------------------------------------------------------------------------
(* Properties.                                                             *)

Done(name) == pc = "done" /\ op = name

Returned(name) == pc = "done" /\ op = name /\ err = "none"

ZeroVec == Vec3(0, 0, 0)

\* IEEE equality of complex numbers
CEq(x, y) == NEq(x[1], y[1]) /\ NEq(x[2], y[2])

\* M[i, j] equals the complex conjugate of M[j, i]
IsHermitian(M) ==
    \A i \in DOMAIN M : \A j \in DOMAIN M : CEq(M[i][j], CConj(M[j][i]))

IsSquare(M, n) == DOMAIN M = 0 .. n - 1 /\ \A i \in DOMAIN M : DOMAIN M[i] = 0 .. n - 1

\* C1: the block an entry point builds with strain flag _s is spin-orbit +
\* Jahn-Teller + orbital Zeeman + spin Zeeman + (strain if _s else 0): it
\* holds the strain term exactly when the flag passed is true.
C1_StrainFollowsFlag ==
    (pc = "done" /\ op \in {"snv_hamiltonian", "system", "system_small"})
        => /\ loc.g = HgL(loc.B, arg.s)
           /\ loc.u = MAdd(ZPLdiag, HuL(loc.B, arg.s))

\* sum of the squares of the components
NormSq(v) == NAdd(NAdd(NMul(v[1], v[1]), NMul(v[2], v[2])), NMul(v[3], v[3]))

\* v is a non-negative multiple of d: the cross products agree, the dot
\* product is not negative
Parallel(v, d) ==
    /\ \A i, j \in 1 .. 3 : NEq(NMul(v[i], d[j]), NMul(v[j], d[i]))
    /\ LET dot == NAdd(NAdd(NMul(v[1], d[1]), NMul(v[2], d[2])), NMul(v[3], d[3]))
       IN  ~NLess(dot, Zero)

\* C2: for every magnitude m and nonzero direction d, make_B_vector(m, d) is
\* parallel to d and its squared Euclidean norm is m^2.
C2_NormIsMagnitude ==
    (Done("make_B_vector") /\ arg.b_vec # ZeroVec)
        => /\ Parallel(ret, arg.b_vec)
           /\ NEq(NormSq(ret), NMul(arg.b, arg.b))

\* C3: with the zero direction vector make_B_vector, and every operation
\* that takes a field direction, ends with InvalidArgument and no value.
C3_ZeroDirectionIsInvalidArgument ==
    (pc = "done" /\ arg.b_vec = ZeroVec
        /\ op \in {"make_B_vector", "system", "energy", "dipole_mat", "dipole_ham", "vacancy"})
        => /\ err = "InvalidArgument"
           /\ ret = None

\* the dipole matrix a coupling call combined before its loop
DipMatOf(name) ==
    IF name \in {"dipole_ham", "dipole_mat"}
    THEN dipole_mat(arg.pol, arg.b, arg.b_vec, solved)
    ELSE dipole_mat_bfield(arg.pol, arg.phi, arg.b, solved)

\* the direct-index construction over dim levels and two labels
DirectIndex(D, dim, R) ==
    /\ IsSquare(R, 2 * dim)
    /\ \A a, b \in 0 .. 1 : \A to, from \in 0 .. dim - 1 :
          R[a * dim + to][b * dim + from] = IF a = b THEN D[to][from] ELSE CZero

\* C4: the operator the one-hot/label search loop of dipole_ham and of
\* dipole_ham_bfield builds from the 8 x 8 dipole matrix D has entry
\* (a*8 + to, b*8 + from) equal to D[to, from] when a = b and zero otherwise.
C4_CouplingIsDirectIndex ==
    \A name \in {"dipole_ham", "dipole_ham_bfield"} :
        Returned(name) => DirectIndex(DipMatOf(name), 8, ret)

C4_Witness ==
    /\ Returned("dipole_ham_bfield")
    /\ \E to, from \in 0 .. 7 : ret[8 + to][8 + from] # CZero /\ to # from

\* a real diagonal matrix of size n whose diagonal is d[0 .. n-1]
IsDiagOf(R, n, d) ==
    /\ IsSquare(R, n)
    /\ \A i, j \in 0 .. n - 1 : R[i][j] = IF i = j THEN d[i] ELSE Zero

Column(M, k) == [r \in DOMAIN M |-> M[r][k]]

\* C6: on the same blocks, manifold_small returns the even-index projection
\* of manifold: reduced eigenvalue k is full eigenvalue 2k, reduced
\* eigenvector k is the full eigenvector (column) 2k, and reduced dipole
\* entry [i, j] is full dipole entry [2i, 2j].
C6_ReducedIsEvenProjection ==
    Returned("system_small") =>
        LET full == manifold([g |-> loc.g, u |-> loc.u], dipole_matel, solved)
            red  == ret.sys
        IN  /\ \A mf \in {"g", "u"} : \A k \in 0 .. 1 :
                  /\ red.eigs[mf][k] = full.eigs[mf][2 * k]
                  /\ red.vecs[mf][k] = Column(full.vecs[mf], 2 * k)
            /\ \A axis \in Axes : \A i, j \in 0 .. 1 :
                  red.dips[axis][i][j] = full.dips[axis][2 * i][2 * j]

TermOps == {"H_SO", "H_JT", "H_ZL", "H_ZS", "H_st"}

\* C7: every term builder returns a 4 x 4 Hermitian matrix for real
\* parameters and real field vectors, and so is every manifold block built
\* from a real field vector, with or without the strain term, the excited
\* one with the ZPL diagonal added.
C7_TermsHermitian ==
    /\ (pc = "done" /\ op \in TermOps) => IsSquare(ret, 4) /\ IsHermitian(ret)
    /\ (pc = "done" /\ loc # Loc0 /\ VFinite(loc.B))
          => /\ IsSquare(loc.g, 4) /\ IsHermitian(loc.g)
             /\ IsSquare(loc.u, 4) /\ IsHermitian(loc.u)
             /\ \A strain \in BOOLEAN :
                   /\ IsHermitian(HgL(loc.B, strain))
                   /\ IsHermitian(MAdd(ZPLdiag, HuL(loc.B, strain)))

C7_Witness ==
    /\ Done("H_ZS")
    /\ ret[0][1][2] # Zero
    /\ ret[0][0][1] # Zero

Perms == {f \in [0 .. 3 -> 0 .. 3] : \A i, j \in 0 .. 3 : f[i] = f[j] => i = j}

C9_DipoleOperatorsHermitian ==
    /\ Returned("system") =>
          LET Vg == get_eigs(solved.g)[2]
              Vu == get_eigs(solved.u)[2]
              P  == [x |-> ret.px, y |-> ret.py, z |-> ret.pz]
          IN  \A axis \in Axes :
                LET d == Dot(ConjT(Vg), Dot(dipole_matel[axis], Vu))
                IN  /\ IsSquare(P[axis], 8)
                    /\ IsHermitian(P[axis])
                    /\ \A i, j \in 0 .. 3 :
                          /\ P[axis][i][4 + j] = d[i][j]
                          /\ P[axis][4 + i][j] = CConj(d[j][i])
                          /\ P[axis][i][j] = CZero
                          /\ P[axis][4 + i][4 + j] = CZero
    /\ \A name \in {"dipole_mat", "dipole_mat_bfield"} :
          Returned(name) => IsSquare(ret, 8) /\ IsHermitian(ret)
    /\ \A name \in {"dipole_ham", "dipole_ham_bfield"} :
          Returned(name) => IsSquare(ret, 16) /\ IsHermitian(ret)

C9_Witness ==
    /\ Returned("system")
    /\ \E i \in 0 .. 3, j \in 4 .. 7 : ret.py[i][j][2] # Zero /\ ret.py[j][i][2] # Zero

\* C10: snv_hamiltonian builds its blocks from the field vector system uses
\* for the same magnitude, direction and flag: [0,4) holds that excited
\* block (with ZPL), [4,8) that ground block, and the rest is zero.
C10_SameFieldAsSystem ==
    Done("snv_hamiltonian") =>
        LET HT == system_HT(arg.b, arg.s, arg.b_vec)
        IN  /\ IsSquare(ret, 8)
            /\ \A i, j \in 0 .. 3 :
                  /\ ret[i][j] = HT.u[i][j]
                  /\ ret[4 + i][4 + j] = HT.g[i][j]
                  /\ ret[i][4 + j] = CZero
                  /\ ret[4 + i][j] = CZero

=============================================================================
